---- MODULE Spec2Model ----
(***************************************************************************)
(* Model of the guessmygeo backend services.                               *)
(*   AuthService    (src/src/auth/auth.service.ts)                         *)
(*   ActionsService (src/src/actions/actions.controller.spec.ts, 173-240)  *)
(* A request is a slot that walks through the awaits of its handler; every *)
(* step between two store statements is one action.  The user store is a   *)
(* SET of rows, so that "username is unique" is a property to be checked.  *)
(***************************************************************************)
EXTENDS Integers, Sequences, FiniteSets, TLC

VARIABLES users, req, files, unlinks, crashed, actions, clock, nextId, resp

vars == <<users, req, files, unlinks, crashed, actions, clock, nextId, resp>>

authVars == <<users, req>>
fileVars == <<files, unlinks, crashed>>
logVars == <<actions, clock, nextId, resp>>

(***************************************************************************)
(* Bounds                                                                  *)
(***************************************************************************)
NumRequests == 2

Requests == 1..NumRequests

MaxActions == 3

MaxClock == 1

MaxLimit == 2

(***************************************************************************)
(* Values                                                                  *)
(***************************************************************************)
Alice == <<"a", "l">>

SUPERUSER == <<"s", "u">>

NoName == <<>>

Usernames == {Alice, SUPERUSER}

Absent == "<undefined>"

Passwords == {"pw1", "pw2"}

SuperPass == "pw2"

NoFile == 0

HashRounds == 9

NoHash == [alg |-> "none", rounds |-> 0, digest |-> ""]

\* bcrypt.hash(pass, 9)
Hash(p) == [alg |-> "bcrypt", rounds |-> HashRounds, digest |-> p]

\* bcrypt.compare(pass, hash): recompute the digest under the hash's parameters
Compare(p, h) == h.alg = "bcrypt" /\ [alg |-> "bcrypt", rounds |-> h.rounds, digest |-> p] = h

\* configService.get('SUPERUSER_PASS') holds a bcrypt hash
SUPERUSER_PASS == Hash(SuperPass)

\* if (pass): undefined and the empty string are falsy
Truthy(p) == p # Absent /\ p # ""

NoUser == [username |-> NoName, pass |-> NoHash, name |-> "", surname |-> "", email |-> "", avatar |-> NoFile]

NoDTO == [username |-> NoName, pass |-> Absent, newPass |-> Absent, name |-> "", surname |-> "", email |-> "", filename |-> NoFile]

Profiles == {[name |-> "n0", surname |-> "s0", email |-> "e0"], [name |-> "n1", surname |-> "s1", email |-> "e1"]}

RegProfiles == {[name |-> "n0", surname |-> "s0", email |-> "e0"]}

RegisterDTOs == {[NoDTO EXCEPT !.username = u, !.pass = p, !.name = f.name, !.surname = f.surname, !.email = f.email] : u \in Usernames, p \in Passwords, f \in RegProfiles}

CredentialsDTOs == {[NoDTO EXCEPT !.username = u, !.pass = p] : u \in Usernames, p \in Passwords}

InfoEditDTOs == {[NoDTO EXCEPT !.username = u, !.name = f.name, !.surname = f.surname, !.email = f.email] : u \in Usernames, f \in Profiles}

PassChangeDTOs == {[NoDTO EXCEPT !.pass = p, !.newPass = n] : p \in Passwords \cup {Absent, ""}, n \in Passwords}

(***************************************************************************)
(* Responses                                                               *)
(***************************************************************************)
NoResult == [status |-> "none", jwt |-> NoName, privilege |-> "none", filename |-> NoFile]

Void == [NoResult EXCEPT !.status = "ok"]

Thrown(e) == [NoResult EXCEPT !.status = e]

\* signJWT(username): the payload is { username }
signJWT(u) == u

IdleReq == [op |-> "idle", pc |-> "idle", dto |-> NoDTO, user |-> NoUser, oldUser |-> NoUser, exist |-> FALSE, result |-> NoResult, raced |-> {}]

Done(q, res) == [IdleReq EXCEPT !.op = q.op, !.pc = "done", !.dto = q.dto, !.result = res, !.raced = q.raced]

(***************************************************************************)
(* The users repository                                                    *)
(***************************************************************************)
Rows(store, u) == {x \in store : x.username = u}

\* usersRepo.exist({ where: { username } })
Exist(store, u) == Rows(store, u) # {}

\* usersRepo.findOne({ where: { username } })
FindOne(store, u) == IF Exist(store, u) THEN CHOOSE x \in Rows(store, u) : TRUE ELSE NoUser

\* the store's uniqueness constraint on username: a row keyed k may be
\* written when no row other than those it replaces carries that key
KeyFree(store, k, replaced) == \A x \in store \ replaced : x.username # k

\* usersRepo.insert(user)
InsertFails(store, row) == ~KeyFree(store, row.username, {})

Insert(store, row) == store \cup {row}

\* usersRepo.update(criteria, user): every column of the entity is written to
\* the rows the criteria select; no row selected is not an error
UpdateFails(store, key, row) == Rows(store, key) # {} /\ ~KeyFree(store, row.username, Rows(store, key))

Update(store, key, row) == IF Rows(store, key) = {} THEN store ELSE (store \ Rows(store, key)) \cup {row}

\* usersRepo.save(user): update of the row with the entity's key, insert when there is none
Save(store, row) == (store \ Rows(store, row.username)) \cup {row}

\* a request that holds a copy of a row and has not written it yet
HoldsCopy(q) == q.pc \in {"edit_exist", "edit_update", "pass_update", "avatar_upload", "avatar_remove"}

\* req after slot r has written the store: the slots that still hold a copy learn of the write
Wrote(r, q) == [s \in Requests |-> IF s = r THEN q ELSE IF HoldsCopy(req[s]) THEN [req[s] EXCEPT !.raced = @ \cup {r}] ELSE req[s]]

\* requests are numbered in the order they arrive
Arrives(r) == req[r].pc = "idle" /\ \A s \in Requests : s < r => req[s].pc # "idle"

(***************************************************************************)
(* AuthService.register                                                    *)
(***************************************************************************)
\* variant: the lookup result is not tested
InUseNever(user) == FALSE

\* line 44, if (user): the username is already in use
InUse(user) == user # NoUser

RegisterFind(r, dto) ==
    /\ Arrives(r)
    /\ LET user == FindOne(users, dto.username)
           q == [IdleReq EXCEPT !.op = "register", !.dto = dto]
       IN  IF InUse(user)
           THEN req' = [req EXCEPT ![r] = Done(q, Thrown("Conflict"))]
           ELSE req' = [req EXCEPT ![r] = [q EXCEPT !.pc = "reg_insert"]]
    /\ UNCHANGED <<users, fileVars, logVars>>

\* variant: the password is stored as given
NewUserPlain(dto) == [NoUser EXCEPT !.username = dto.username, !.pass = [alg |-> "plain", rounds |-> 0, digest |-> dto.pass], !.name = dto.name, !.surname = dto.surname, !.email = dto.email]

NewUser(dto) == [NoUser EXCEPT !.username = dto.username, !.pass = Hash(dto.pass), !.name = dto.name, !.surname = dto.surname, !.email = dto.email]

\* variant: register writes with save(), which updates the row that has the key
RegisterWriteSave(store, user) == [fails |-> FALSE, store |-> Save(store, user)]

\* line 60: the statement register writes with, its failure and its effect
RegisterWrite(store, user) == [fails |-> InsertFails(store, user), store |-> Insert(store, user)]

RegisterInsert(r) ==
    /\ req[r].pc = "reg_insert"
    /\ LET user == NewUser(req[r].dto)
           w == RegisterWrite(users, user)
       IN  IF w.fails
           THEN /\ req' = [req EXCEPT ![r] = Done(req[r], Thrown("InternalServerError"))]
                /\ users' = users
           ELSE /\ users' = w.store
                /\ req' = Wrote(r, Done(req[r], Void))
    /\ UNCHANGED <<fileVars, logVars>>

(***************************************************************************)
(* AuthService.login                                                       *)
(***************************************************************************)
LoginOutcome(store, username, pass) ==
    LET user == FindOne(store, username)
    IN  IF user # NoUser /\ Compare(pass, user.pass)
        THEN [Void EXCEPT !.jwt = signJWT(username)]
        ELSE IF username = SUPERUSER /\ Compare(pass, SUPERUSER_PASS)
             THEN [Void EXCEPT !.jwt = signJWT(username), !.privilege = "admin"]
             ELSE Thrown("Unauthorized")

Login(r, dto) ==
    /\ Arrives(r)
    /\ req' = [req EXCEPT ![r] = Done([IdleReq EXCEPT !.op = "login", !.dto = dto], LoginOutcome(users, dto.username, dto.pass))]
    /\ UNCHANGED <<users, fileVars, logVars>>

(***************************************************************************)
(* The authenticated user of a request: the row of the token's username    *)
(***************************************************************************)
Authenticate(r, op, pc, dto) ==
    /\ Arrives(r)
    /\ \E u \in users :
          req' = [req EXCEPT ![r] = [IdleReq EXCEPT !.op = op, !.pc = pc, !.dto = dto, !.user = u]]

(***************************************************************************)
(* AuthService.editInfo                                                    *)
(***************************************************************************)
BeginEditInfo(r, dto) ==
    /\ Authenticate(r, "editInfo", "edit_exist", dto)
    /\ UNCHANGED <<users, fileVars, logVars>>

EditExist(r) ==
    /\ req[r].pc = "edit_exist"
    /\ LET q == req[r]
           exist == IF q.dto.username # q.user.username THEN Exist(users, q.dto.username) ELSE FALSE
       IN  req' = [req EXCEPT ![r] = [q EXCEPT !.pc = "edit_update", !.exist = exist]]
    /\ UNCHANGED <<users, fileVars, logVars>>

\* variant: a taken username leaves the whole entity as it was
EditedAllOrNothing(user, dto, exist) == IF exist THEN user ELSE [user EXCEPT !.username = dto.username, !.name = dto.name, !.surname = dto.surname, !.email = dto.email]

\* the entity after lines 137-143
Edited(user, dto, exist) == [user EXCEPT !.username = IF ~exist THEN dto.username ELSE @, !.name = dto.name, !.surname = dto.surname, !.email = dto.email]

EditUpdate(r) ==
    /\ req[r].pc = "edit_update"
    /\ LET q == req[r]
           oldUser == q.user
           user == Edited(q.user, q.dto, q.exist)
       IN  IF UpdateFails(users, oldUser.username, user)
           THEN /\ users' = users
                /\ req' = [req EXCEPT ![r] = Done(q, Thrown("InternalServerError"))]
           ELSE /\ users' = Update(users, oldUser.username, user)
                /\ req' = Wrote(r, [Done(q, IF q.exist THEN Thrown("Conflict") ELSE [Void EXCEPT !.jwt = signJWT(q.dto.username)]) EXCEPT !.oldUser = oldUser])
    /\ UNCHANGED <<fileVars, logVars>>

(***************************************************************************)
(* AuthService.changePass                                                  *)
(***************************************************************************)
BeginChangePass(r, dto) ==
    /\ Authenticate(r, "changePass", "pass_update", dto)
    /\ UNCHANGED <<users, fileVars, logVars>>

\* variant: the current password is hashed instead of the new one
RehashedCurrent(user, dto) == [user EXCEPT !.pass = Hash(dto.pass)]

\* the entity after lines 168-170
Rehashed(user, dto) == [user EXCEPT !.pass = Hash(dto.newPass)]

ChangePass(r) ==
    /\ req[r].pc = "pass_update"
    /\ LET q == req[r]
           user == Rehashed(q.user, q.dto)
       IN  IF Truthy(q.dto.pass) /\ ~Compare(q.dto.pass, q.user.pass)
           THEN /\ users' = users
                /\ req' = [req EXCEPT ![r] = Done(q, Thrown("Conflict"))]
           ELSE IF UpdateFails(users, user.username, user)
                THEN /\ users' = users
                     /\ req' = [req EXCEPT ![r] = Done(q, Thrown("InternalServerError"))]
                ELSE /\ users' = Update(users, user.username, user)
                     /\ req' = Wrote(r, [Done(q, Void) EXCEPT !.oldUser = q.user])
    /\ UNCHANGED <<fileVars, logVars>>

(***************************************************************************)
(* Avatars: the uploads area and the unlink calls in flight                *)
(***************************************************************************)
\* the upload of request r is stored under a name of its own
Filename(r) == r

UnlinkTargets == Requests \cup {NoFile}

\* fs.unlink(path, callback): the call returns at once, the file goes later
Unlink(f) == [unlinks EXCEPT ![f] = @ + 1]

\* the file of the request has been written to uploads/ and the request is authenticated
BeginUploadAvatar(r) ==
    /\ ~crashed
    /\ Authenticate(r, "uploadAvatar", "avatar_upload", [NoDTO EXCEPT !.filename = Filename(r)])
    /\ files' = files \cup {Filename(r)}
    /\ UNCHANGED <<users, unlinks, crashed, logVars>>

UploadAvatar(r) ==
    /\ ~crashed
    /\ req[r].pc = "avatar_upload"
    /\ LET q == req[r]
           filename == q.dto.filename
       IN  IF q.user.avatar # NoFile
           THEN /\ unlinks' = Unlink(filename)
                /\ users' = users
                /\ req' = [req EXCEPT ![r] = [Done(q, Thrown("Conflict")) EXCEPT !.oldUser = q.user]]
           ELSE /\ users' = Save(users, [q.user EXCEPT !.avatar = filename])
                /\ unlinks' = unlinks
                /\ req' = Wrote(r, [Done(q, [Void EXCEPT !.filename = filename]) EXCEPT !.oldUser = q.user])
    /\ UNCHANGED <<files, crashed, logVars>>

BeginRemoveAvatar(r) ==
    /\ ~crashed
    /\ Authenticate(r, "removeAvatar", "avatar_remove", NoDTO)
    /\ UNCHANGED <<users, fileVars, logVars>>

RemoveAvatar(r) ==
    /\ ~crashed
    /\ req[r].pc = "avatar_remove"
    /\ LET q == req[r]
       IN  /\ unlinks' = Unlink(q.user.avatar)
           /\ users' = Save(users, [q.user EXCEPT !.avatar = NoFile])
           /\ req' = Wrote(r, [Done(q, Void) EXCEPT !.oldUser = q.user])
    /\ UNCHANGED <<files, crashed, logVars>>

\* an unlink completes: the file is gone, or there was none and the callback
\* throws outside every handler
UnlinkDone(f) ==
    /\ ~crashed
    /\ unlinks[f] > 0
    /\ unlinks' = [unlinks EXCEPT ![f] = @ - 1]
    /\ IF f \in files
       THEN files' = files \ {f} /\ crashed' = crashed
       ELSE files' = files /\ crashed' = TRUE
    /\ UNCHANGED <<users, req, logVars>>

(***************************************************************************)
(* ActionsService                                                          *)
(***************************************************************************)
NoValue == "<null>"

Values == {Absent}

SearchTerms == {<<>>, <<"l">>, <<"s", "u">>}

NoResp == [op |-> "none", id |-> 0, limit |-> 0, search |-> <<>>, status |-> "none", value |-> FALSE, list |-> <<>>]

\* Like(`%${search}%`)
Like(search, text) == \E i \in 1..(Len(text) - Len(search) + 1) : SubSeq(text, i, i + Len(search) - 1) = search

\* value ? value : null
ValueOrNull(value) == IF value # Absent /\ value # "" THEN value ELSE NoValue

RecordAction(username, value) ==
    /\ nextId <= MaxActions
    /\ actions' = actions \cup {[id |-> nextId, performedAt |-> clock, value |-> ValueOrNull(value), user |-> username]}
    /\ nextId' = nextId + 1
    /\ resp' = [NoResp EXCEPT !.op = "recordAction", !.status = "ok"]
    /\ UNCHANGED <<authVars, fileVars, clock>>

\* where: search ? { user: Like(`%${search}%`) } : {}
Where(search) == {a \in actions : search # <<>> => Like(search, a.user)}

\* variant: ascending order
Oldest(S) == {a \in S : \A b \in S : b.performedAt >= a.performedAt}

Newest(S) == {a \in S : \A b \in S : b.performedAt <= a.performedAt}

\* order: { performedAt: 'DESC' }: the orders the store may return the rows in
RECURSIVE OrderBy(_)
OrderBy(S) == IF S = {} THEN {<<>>} ELSE UNION {{<<a>> \o t : t \in OrderBy(S \ {a})} : a \in Newest(S)}

\* take: limit
Take(list, limit) == SubSeq(list, 1, IF limit < Len(list) THEN limit ELSE Len(list))

\* the lists find() may return
Find(limit, search) == {Take(list, limit) : list \in OrderBy(Where(search))}

SelectActions(limit, search) ==
    /\ \E list \in Find(limit, search) :
          resp' = [NoResp EXCEPT !.op = "selectActions", !.status = "ok", !.limit = limit, !.search = search, !.list = list]
    /\ UNCHANGED <<authVars, fileVars, actions, clock, nextId>>

\* line 236-238: the value returned for result.affected
Removed(affected) == IF affected = 0 THEN FALSE ELSE TRUE

RemoveAction(id) ==
    /\ LET rows == {a \in actions : a.id = id}
       IN  /\ actions' = actions \ rows
           /\ resp' = [NoResp EXCEPT !.op = "removeAction", !.status = "ok", !.id = id, !.value = Removed(Cardinality(rows))]
    /\ UNCHANGED <<authVars, fileVars, clock, nextId>>

\* time passes
Tick ==
    /\ clock < MaxClock
    /\ clock' = clock + 1
    /\ UNCHANGED <<authVars, fileVars, actions, nextId, resp>>

AliceRow == NewUser([NoDTO EXCEPT !.username = Alice, !.pass = "pw1", !.name = "n0", !.surname = "s0", !.email = "e0"])

SuperRow == NewUser([NoDTO EXCEPT !.username = SUPERUSER, !.pass = "pw1", !.name = "n0", !.surname = "s0", !.email = "e0"])

\* the user table the service starts on: empty, or rows of earlier registrations
InitialTables == {{}, {AliceRow}, {AliceRow, SuperRow}}

Init ==
    /\ users \in InitialTables
    /\ req = [r \in Requests |-> IdleReq]
    /\ files = {}
    /\ unlinks = [f \in UnlinkTargets |-> 0]
    /\ crashed = FALSE
    /\ actions = {}
    /\ clock = 0
    /\ nextId = 1
    /\ resp = NoResp

Next ==
    \/ \E r \in Requests, dto \in RegisterDTOs : RegisterFind(r, dto)
    \/ \E r \in Requests : RegisterInsert(r)
    \/ \E r \in Requests, dto \in CredentialsDTOs : Login(r, dto)
    \/ \E r \in Requests, dto \in InfoEditDTOs : BeginEditInfo(r, dto)
    \/ \E r \in Requests : EditExist(r)
    \/ \E r \in Requests : EditUpdate(r)
    \/ \E r \in Requests, dto \in PassChangeDTOs : BeginChangePass(r, dto)
    \/ \E r \in Requests : ChangePass(r)

Spec == Init /\ [][Next]_vars

\* the avatar operations, for registered users who have no avatar yet
InitAvatar ==
    /\ users \in InitialTables \ {{}}
    /\ req = [r \in Requests |-> IdleReq]
    /\ files = {}
    /\ unlinks = [f \in UnlinkTargets |-> 0]
    /\ crashed = FALSE
    /\ actions = {}
    /\ clock = 0
    /\ nextId = 1
    /\ resp = NoResp

NextAvatar ==
    \/ \E r \in Requests : BeginUploadAvatar(r)
    \/ \E r \in Requests : UploadAvatar(r)
    \/ \E r \in Requests : BeginRemoveAvatar(r)
    \/ \E r \in Requests : RemoveAvatar(r)
    \/ \E f \in UnlinkTargets : UnlinkDone(f)

SpecAvatar == InitAvatar /\ [][NextAvatar]_vars

\* the event log, for two registered users
InitLog ==
    /\ users = {AliceRow, SuperRow}
    /\ req = [r \in Requests |-> IdleReq]
    /\ files = {}
    /\ unlinks = [f \in UnlinkTargets |-> 0]
    /\ crashed = FALSE
    /\ actions = {}
    /\ clock = 0
    /\ nextId = 1
    /\ resp = NoResp

NextLog ==
    \/ \E u \in users, v \in Values : RecordAction(u.username, v)
    \/ \E limit \in 0..MaxLimit, search \in SearchTerms : SelectActions(limit, search)
    \/ \E id \in 1..MaxActions : RemoveAction(id)
    \/ Tick

SpecLog == InitLog /\ [][NextLog]_vars


(***************************************************************************)
(* Properties of the authentication service                                *)
(***************************************************************************)
Ok(res) == res.status = "ok"

\* request r takes the step that leaves pc value `from` and returns
Returns(r, from) == req[r].pc = from /\ req'[r].pc = "done"

\* no other request wrote the store while r held its copy of the user
Isolated(r) == req[r].raced = {}

UsernameUnique == \A a, b \in users : a.username = b.username => a = b

\* the write of register, or of an editInfo that renames an existing row,
\* carries a username that a stored row already has
WouldDuplicate(r) ==
    \/ /\ Returns(r, "reg_insert")
       /\ Exist(users, req[r].dto.username)
    \/ /\ Returns(r, "edit_update")
       /\ ~req[r].exist
       /\ req[r].dto.username # req[r].user.username
       /\ Exist(users, req[r].user.username)
       /\ Exist(users, req[r].dto.username)

\* C1: no two stored User rows ever share a username, whatever the
\* interleaving of the lookups and writes of register and editInfo, and a
\* call whose write would create a duplicate fails and leaves every stored
\* row as it was.
C1_UniqueUsernames ==
    /\ []UsernameUnique
    /\ [][\A r \in Requests : WouldDuplicate(r) => ~Ok(req'[r].result) /\ users' = users]_vars

\* two register calls for one username raced: one stored the row, the other's insert was refused
C1_Witness ==
    \E r1, r2 \in Requests :
       /\ r1 # r2
       /\ req[r1].op = "register" /\ req[r2].op = "register"
       /\ req[r1].dto.username = req[r2].dto.username
       /\ req[r1].pc = "done" /\ Ok(req[r1].result)
       /\ req[r2].pc = "done" /\ req[r2].result = Thrown("InternalServerError")
       /\ UsernameUnique /\ Cardinality(users) = 1

\* C2: a register call for a free username goes on to store a row for it and
\* succeeds; a register call for a username that has a row fails with
\* Conflict and leaves the store exactly as it was.
C2_RegisterTwice ==
    [][\A r \in Requests :
         /\ (req[r].pc = "idle" /\ req'[r].op = "register") =>
               IF Exist(users, req'[r].dto.username)
               THEN req'[r].pc = "done" /\ req'[r].result = Thrown("Conflict") /\ users' = users
               ELSE req'[r].pc = "reg_insert" /\ users' = users
         /\ (Returns(r, "reg_insert") /\ ~Exist(users, req[r].dto.username)) =>
               /\ req'[r].result = Void
               /\ users' = users \cup {NewUser(req[r].dto)}
               /\ Exist(users', req[r].dto.username)]_vars

\* the first register of a username succeeded, the second one got Conflict
C2_Witness ==
    \E r1, r2 \in Requests :
       /\ r1 < r2
       /\ req[r1].op = "register" /\ req[r2].op = "register"
       /\ req[r1].dto.username = req[r2].dto.username
       /\ req[r1].pc = "done" /\ req[r1].result = Void
       /\ req[r2].pc = "done" /\ req[r2].result = Thrown("Conflict")
       /\ Exist(users, req[r1].dto.username)

\* register(u, p) has just succeeded
Registered(r) == Returns(r, "reg_insert") /\ Ok(req'[r].result)

Token(u) == [Void EXCEPT !.jwt = signJWT(u)]

AdminToken(u) == [Void EXCEPT !.jwt = signJWT(u), !.privilege = "admin"]

\* C3 as stated: once register(u, p) has succeeded, login(u, p) returns a
\* token and login(u, q) fails with Unauthorized for every q other than p.
C3_Original ==
    [][\A r \in Requests : Registered(r) =>
         LET u == req[r].dto.username
             p == req[r].dto.pass
         IN  /\ LoginOutcome(users', u, p) = Token(u)
             /\ \A q \in Passwords \ {p} : LoginOutcome(users', u, q) = Thrown("Unauthorized")]_vars

\* C3 amended: once register(u, p) has succeeded, login(u, p) returns a token
\* without privilege, and login(u, q) for q other than p fails with
\* Unauthorized unless (u, q) is the configured superuser pair, in which case
\* it returns a token with the privilege marker 'admin'.
C3_LoginAfterRegister ==
    [][\A r \in Requests : Registered(r) =>
         LET u == req[r].dto.username
             p == req[r].dto.pass
         IN  /\ LoginOutcome(users', u, p) = Token(u)
             /\ \A q \in Passwords \ {p} :
                   LoginOutcome(users', u, q) =
                      IF u = SUPERUSER /\ q = SuperPass THEN AdminToken(u) ELSE Thrown("Unauthorized")]_vars

\* a user registered, and the login with another password was refused
C3_Witness ==
    \E r1, r2 \in Requests :
       /\ r1 < r2
       /\ req[r1].op = "register" /\ req[r1].pc = "done" /\ Ok(req[r1].result)
       /\ NewUser(req[r1].dto) \in users
       /\ req[r2].op = "login" /\ req[r2].pc = "done"
       /\ req[r2].dto.username = req[r1].dto.username /\ req[r2].dto.pass # req[r1].dto.pass
       /\ req[r2].result = Thrown("Unauthorized")

\* C4: a login returns the privilege marker 'admin' exactly when the supplied
\* username and password are the configured superuser pair, whatever the
\* user table holds.
C4_SuperuserIff ==
    \A r \in Requests :
       (req[r].op = "login" /\ req[r].pc = "done") =>
          ((req[r].result.privilege = "admin") <=>
             (req[r].dto.username = SUPERUSER /\ req[r].dto.pass = SuperPass))

\* the new username of editInfo differs from the current one and another user has it
Taken(r) == req[r].dto.username # req[r].user.username /\ Exist(users, req[r].dto.username)

WithProfile(row, dto) == [row EXCEPT !.name = dto.name, !.surname = dto.surname, !.email = dto.email]

\* C8: an editInfo whose new username is taken by another user fails with
\* Conflict, and then the caller's row keeps its username and holds the new
\* name, surname and email while every other row is unchanged; when the
\* username is free or unchanged all four fields are stored and a token for
\* the new username is returned.  (The call runs with no other request
\* writing the store between its authentication and its write.)
C8_EditProfile ==
    [][\A r \in Requests : (Returns(r, "edit_update") /\ Isolated(r)) =>
         LET old == req[r].user
             dto == req[r].dto
         IN  IF Taken(r)
             THEN /\ req'[r].result = Thrown("Conflict")
                  /\ users' = (users \ {old}) \cup {WithProfile(old, dto)}
                  /\ FindOne(users', dto.username) = FindOne(users, dto.username)
             ELSE /\ req'[r].result = Token(dto.username)
                  /\ users' = (users \ {old}) \cup {[WithProfile(old, dto) EXCEPT !.username = dto.username]}]_vars

\* an edit to a taken username returned Conflict and left the new profile in the caller's row
C8_Witness ==
    \E r \in Requests :
       /\ req[r].op = "editInfo" /\ req[r].pc = "done" /\ req[r].raced = {}
       /\ req[r].result = Thrown("Conflict")
       /\ req[r].dto.name # req[r].oldUser.name
       /\ WithProfile(req[r].oldUser, req[r].dto) \in users
       /\ Exist(users, req[r].dto.username)
       /\ req[r].dto.username # req[r].oldUser.username

\* the passwords that verify against the hash of row
OldPasswords(row) == {p \in Passwords : Compare(p, row.pass)}

\* C9 as stated: a supplied currentPassword that does not verify gives
\* Conflict and an unchanged hash; in every other case the stored hash is
\* the hash of newPassword, login with newPassword succeeds and login with a
\* different old password fails with Unauthorized.
C9_Original ==
    [][\A r \in Requests : (Returns(r, "pass_update") /\ Isolated(r)) =>
         LET old == req[r].user
             u == req[r].user.username
             dto == req[r].dto
         IN  IF dto.pass # Absent /\ ~Compare(dto.pass, old.pass)
             THEN /\ req'[r].result = Thrown("Conflict")
                  /\ users' = users
                  /\ \A p \in OldPasswords(old) : Ok(LoginOutcome(users', u, p))
             ELSE /\ req'[r].result = Void
                  /\ FindOne(users', u).pass = Hash(dto.newPass)
                  /\ Ok(LoginOutcome(users', u, dto.newPass))
                  /\ \A p \in OldPasswords(old) \ {dto.newPass} :
                        LoginOutcome(users', u, p) = Thrown("Unauthorized")]_vars

\* C9 amended: a supplied, non-empty currentPassword that does not verify
\* gives Conflict and an unchanged hash (login with the old password still
\* succeeds); in every other case (absent, empty or verifying) the stored
\* hash becomes the hash of newPassword, login with newPassword succeeds and
\* login with a different old password fails with Unauthorized, unless the
\* username and the old password are the configured superuser pair, in which
\* case that login returns a token with the privilege marker 'admin'.
C9_ChangePassword ==
    [][\A r \in Requests : (Returns(r, "pass_update") /\ Isolated(r)) =>
         LET old == req[r].user
             u == req[r].user.username
             dto == req[r].dto
         IN  IF dto.pass # Absent /\ dto.pass # "" /\ ~Compare(dto.pass, old.pass)
             THEN /\ req'[r].result = Thrown("Conflict")
                  /\ users' = users
                  /\ \A p \in OldPasswords(old) : Ok(LoginOutcome(users', u, p))
             ELSE /\ req'[r].result = Void
                  /\ FindOne(users', u).pass = Hash(dto.newPass)
                  /\ Ok(LoginOutcome(users', u, dto.newPass))
                  /\ \A p \in OldPasswords(old) \ {dto.newPass} :
                        LoginOutcome(users', u, p) =
                           IF u = SUPERUSER /\ p = SuperPass THEN AdminToken(u) ELSE Thrown("Unauthorized")]_vars

\* a password was changed, and the login with the old one was then refused
C9_Witness ==
    \E r1, r2 \in Requests :
       /\ req[r1].op = "changePass" /\ req[r1].pc = "done" /\ req[r1].raced = {}
       /\ req[r1].result = Void
       /\ Truthy(req[r1].dto.pass)
       /\ ~Compare(req[r1].dto.newPass, req[r1].oldUser.pass)
       /\ [req[r1].oldUser EXCEPT !.pass = Hash(req[r1].dto.newPass)] \in users
       /\ req[r2].op = "login" /\ req[r2].pc = "done"
       /\ req[r2].dto.username = req[r1].oldUser.username
       /\ req[r2].dto.pass = req[r1].dto.pass
       /\ req[r2].result = Thrown("Unauthorized")

\* C10: when a changePass and an editInfo of one user each took their copy
\* of the row before either wrote, then once both have succeeded the stored
\* row has the hash of the new password and the name, surname and email
\* given to editInfo.
C10_NoLostUpdate ==
    \A c, e \in Requests :
       (/\ req[c].op = "changePass" /\ req[c].pc = "done" /\ Ok(req[c].result)
        /\ req[e].op = "editInfo" /\ req[e].pc = "done" /\ Ok(req[e].result)
        /\ req[c].oldUser.username = req[e].oldUser.username
        /\ (e \in req[c].raced \/ c \in req[e].raced)
        /\ \A o \in Requests \ {c, e} : req[o].op \in {"idle", "register", "login"} /\ req[o].raced = {} /\ o < c /\ o < e)
       => LET row == FindOne(users, req[e].dto.username)
          IN  /\ row.pass = Hash(req[c].dto.newPass)
              /\ row.name = req[e].dto.name
              /\ row.surname = req[e].dto.surname
              /\ row.email = req[e].dto.email

(***************************************************************************)
(* Properties of the avatar upload                                         *)
(***************************************************************************)
\* C6: uploadAvatar for a user who has an avatar fails with Conflict, the
\* stored avatar stays that of the earlier upload, and the file just
\* uploaded is no longer in file storage when the Conflict is returned.
C6_ConflictDeletesUpload ==
    [][\A r \in Requests :
         (Returns(r, "avatar_upload") /\ Isolated(r) /\ req[r].user.avatar # NoFile) =>
            /\ req'[r].result = Thrown("Conflict")
            /\ FindOne(users', req[r].user.username).avatar = req[r].user.avatar
            /\ req[r].dto.filename \notin files']_vars

(***************************************************************************)
(* Properties of the event log                                             *)
(***************************************************************************)
Ids(S) == {a.id : a \in S}

\* C5: removeAction of a stored id returns true and the id is gone from the
\* store; removeAction of an id that is not stored fails with NotFound,
\* returns no value and leaves the store unchanged.
C5_RemoveAction ==
    [][\A id \in 1..MaxActions : RemoveAction(id) =>
         IF id \in Ids(actions)
         THEN resp'.status = "ok" /\ resp'.value = TRUE /\ id \notin Ids(actions')
         ELSE resp'.status = "NotFound" /\ actions' = actions]_vars

Elems(list) == {list[i] : i \in 1..Len(list)}

\* C7: selectActions returns at most limit events of the store, newest
\* first: none is older than one that follows it and no matching event left
\* out is newer than a returned one; with a search term, every returned
\* event belongs to a user whose username contains the term.  (Every other
\* call replaces the response, so a response of selectActions is read
\* against the store it was computed from.)
C7_SelectActions ==
    resp.op = "selectActions" =>
       LET list == resp.list
           matching == {a \in actions : resp.search = <<>> \/ Like(resp.search, a.user)}
       IN  /\ Len(list) <= resp.limit
           /\ Elems(list) \subseteq actions
           /\ Cardinality(Elems(list)) = Len(list)
           /\ \A i, j \in 1..Len(list) : i < j => list[i].performedAt >= list[j].performedAt
           /\ \A a \in matching \ Elems(list) : \A i \in 1..Len(list) : a.performedAt <= list[i].performedAt
           /\ resp.search # <<>> => \A i \in 1..Len(list) : Like(resp.search, list[i].user)
           /\ Len(list) < resp.limit => Elems(list) = matching

\* two of three stored events were returned for a search, the newer one
\* first, and an older event of a matching user was left out
C7_Witness ==
    /\ resp.op = "selectActions"
    /\ resp.limit = 2
    /\ resp.search # <<>>
    /\ Len(resp.list) = 2
    /\ resp.list[1].performedAt > resp.list[2].performedAt
    /\ Elems(resp.list) \subseteq actions
    /\ \E a \in actions \ Elems(resp.list) : Like(resp.search, a.user) /\ a.performedAt <= resp.list[2].performedAt

====
